---- MODULE Spec2Model ----
(***************************************************************************)
(* Model of the studiolibrary metadata model (src/librarymodel.py) and of  *)
(* the filesystem / JSON helpers it relies on (src/cmds.py).               *)
(*                                                                         *)
(* A path is a sequence of tokens: the separators "/" and "\", directory   *)
(* and file names, and extensions such as ".pose".  The filesystem is the  *)
(* set of existing directories and the set of existing item files.  The    *)
(* database file is a text (see json_dumps / json_loads) with a            *)
(* modification time; every write of the file stamps it with a fresh time. *)
(***************************************************************************)
EXTENDS Integers, Sequences, FiniteSets, TLC

VARIABLES
    dirs,       \* the directories that exist
    files,      \* the item files that exist
    dbText,     \* content of <root>/.studiolibrary/database.json
    dbMtime,    \* its modification time, NoMtime when the file does not exist
    clock,      \* the filesystem's time stamp of the latest write
    _data,      \* LibraryModel._data
    _mtime,     \* LibraryModel._mtime
    _watcher,   \* LibraryModel._watcher is set (the polling thread runs)
    _items,     \* LibraryModel._items, the paths of the items createItems keeps
    discovered, \* the state of the database file when createItems last looked
                \* for the items
    owed,       \* the database file was modified from outside and no fileChanged
                \* was emitted since
    pending,    \* a triggered event of the watcher thread is queued for the model
    writer,     \* the position of a saveJson that runs beside a reader of the file
    tree,       \* the CombinedTreeWidget: its rows, their texts, its sort and group
    calls,      \* the number of calls and environment events so far
    last        \* the latest call: its name, its arguments and its outcome

vars == <<dirs, files, dbText, dbMtime, clock, _data, _mtime, _watcher, pending,
          writer, tree, _items, discovered, owed, calls, last>>

-----------------------------------------------------------------------------
(* Bounds of the model *)

\* number of calls and environment events in one behaviour
MaxCalls == 2
\* longest list of items handed to one call
MaxItems == 2

-----------------------------------------------------------------------------
(* Paths *)

Sep == "/"
BSep == "\\"

RootDir == <<Sep>>
LibDir == <<Sep, "lib">>
DirA == LibDir \o <<Sep, "d1">>
DirC == LibDir \o <<Sep, "d3">>
DirCD == DirC \o <<Sep, "d4">>

PathLX == LibDir \o <<Sep, "x", ".pose">>
PathLZ == LibDir \o <<Sep, "z", ".pose">>
PathAY == DirA \o <<Sep, "y", ".pose">>
PathAZ == DirA \o <<Sep, "z", ".pose">>
PathCX == DirC \o <<Sep, "x", ".pose">>
PathLXBackslash == <<BSep, "lib", BSep, "x", ".pose">>

\* None, for a path or an extension
NoPath == <<>>

Range(s) == {s[i] : i \in 1..Len(s)}

\* str.replace("\\", "/")
ReplaceBackslash(s) == [i \in 1..Len(s) |-> IF s[i] = BSep THEN Sep ELSE s[i]]

\* sub in s, for strings
IsSubstring(sub, s) ==
    \E i \in 0..(Len(s) - Len(sub)) : SubSeq(s, i + 1, i + Len(sub)) = sub

\* s.rfind("/") + 1
RFindSep(s) ==
    LET hits == {i \in 1..Len(s) : s[i] = Sep}
    IN IF hits = {} THEN 0 ELSE CHOOSE i \in hits : \A j \in hits : j <= i

RECURSIVE RStripSep(_)
RStripSep(s) ==
    IF s # <<>> /\ s[Len(s)] = Sep THEN RStripSep(SubSeq(s, 1, Len(s) - 1)) ELSE s

\* os.path.dirname
Dirname(p) ==
    LET head == SubSeq(p, 1, RFindSep(p))
    IN IF head # <<>> /\ Range(head) # {Sep} THEN RStripSep(head) ELSE head

-----------------------------------------------------------------------------
(* The filesystem calls of the standard library *)

\* os.path.exists
Exists(f, d, p) == p \in f \/ p \in d

\* os.mkdir(p) succeeds
OsMkdirOk(f, d, p) == ~Exists(f, d, p) /\ Dirname(p) \in d

\* the operating systems the program runs on
Platforms == {"posix", "nt"}

\* os.rename(s, t) succeeds, for an item file s; replacing an existing file is
\* what POSIX does and what Windows refuses
OsRenameOk(f, d, plat, s, t) ==
    /\ s \in f
    /\ Dirname(t) \in d
    /\ \/ ~Exists(f, d, t)
       \/ t = s
       \/ plat = "posix" /\ t \in f

-----------------------------------------------------------------------------
(* cmds.renamePath *)

\* the destination renamePath computes from its arguments
ComputedDst(src, dst, extension) ==
    LET s == ReplaceBackslash(src)
        t == ReplaceBackslash(dst)
        t2 == IF Sep \notin Range(t) THEN Dirname(s) \o <<Sep>> \o t ELSE t
    IN IF extension # NoPath /\ ~IsSubstring(extension, t2) THEN t2 \o extension ELSE t2

RenameOutcome(outcome, ret, f, d) ==
    [outcome |-> outcome, ret |-> ret, files |-> f, dirs |-> d]

renamePathChecks(f, d, plat, s, t, force) ==
    LET dirname == Dirname(s)
        mk == ~Exists(f, d, Dirname(t)) /\ force
        d2 == IF mk THEN d \cup {Dirname(t)} ELSE d
    IN IF s = t /\ ~force THEN RenameOutcome("PathRenameError", NoPath, f, d)
       ELSE IF Exists(f, d, t) /\ ~force THEN RenameOutcome("PathRenameError", NoPath, f, d)
       ELSE IF ~Exists(f, d, dirname) THEN RenameOutcome("PathRenameError", NoPath, f, d)
       ELSE IF mk /\ ~OsMkdirOk(f, d, Dirname(t)) THEN RenameOutcome("OSError", NoPath, f, d)
       ELSE IF ~Exists(f, d2, s) THEN RenameOutcome("PathRenameError", NoPath, f, d2)
       ELSE IF ~OsRenameOk(f, d2, plat, s, t) THEN RenameOutcome("OSError", NoPath, f, d2)
       ELSE RenameOutcome("renamed", t, (f \ {s}) \cup {t}, d2)

cmds_renamePath(f, d, plat, src, dst, extension, force) ==
    LET t == CHOOSE t \in {ComputedDst(src, dst, extension)} : TRUE
    IN renamePathChecks(f, d, plat, ReplaceBackslash(src), t, force)

-----------------------------------------------------------------------------
(* Item discovery: studiolibrary.findItems(self.path()) *)

ItemExtensions == {".pose", ".anim"}

\* os.sep
OsSep(plat) == IF plat = "nt" THEN BSep ELSE Sep

\* cmds.walk with match=itemFromPath: the entries below the library's root
\* that end with a registered extension and are not inside .studiolibrary,
\* each as os.path.join gives it below the real path of the root
walk(f, plat) ==
    {[i \in 1..Len(p) |-> IF p[i] = Sep THEN OsSep(plat) ELSE p[i]] :
        p \in {q \in f : /\ Len(q) > Len(LibDir) + 1
                         /\ SubSeq(q, 1, Len(LibDir) + 1) = LibDir \o <<Sep>>
                         /\ q[Len(q)] \in ItemExtensions
                         /\ ".studiolibrary" \notin Range(q)}}

\* LibraryItem.path() of the item made for a path: normalized to slashes
LibraryItem_path(path) == ReplaceBackslash(path)

\* the paths of the items found below the library's root
findItems(f) ==
    {LibraryItem_path(q) : q \in UNION {walk(f, plat) : plat \in Platforms}}

-----------------------------------------------------------------------------
(* The database file: saveJson, readJson, updateJson *)

\* a time stamp that is None
NoMtime == 0

NoFile == [kind |-> "nofile", members |-> {}]
EmptyText == [kind |-> "empty", members |-> {}]
Garbage == [kind |-> "garbage", members |-> {}]

\* {} of Python
EmptyDict == <<>>

\* json.dumps of a mapping path -> (column -> value): the text of a JSON
\* object, a set of members "key": {"column": value, ...}
json_dumps(d) ==
    [kind |-> "object",
     members |-> {<<k, {<<c, d[k][c]>> : c \in DOMAIN d[k]}>> : k \in DOMAIN d}]

\* json.loads of the text of a JSON object
json_loads(t) ==
    [k \in {m[1] : m \in t.members} |->
        LET m == CHOOSE m \in t.members : m[1] = k
        IN [c \in {cv[1] : cv \in m[2]} |-> (CHOOSE cv \in m[2] : cv[1] = c)[2]]]

\* readJson: {} unless the file exists, is not empty and parses
readJson(text) == IF text.kind = "object" THEN json_loads(text) ELSE EmptyDict

\* dict.update(other)
DictUpdate(d, other) ==
    [k \in DOMAIN d \cup DOMAIN other |-> IF k \in DOMAIN other THEN other[k] ELSE d[k]]

\* the text updateJson leaves in the file
updateJson(text, data) == json_dumps(DictUpdate(readJson(text), data))

\* studiolibrary.normPaths: every path with its backslashes made slashes
normPaths(paths) == [i \in 1..Len(paths) |-> ReplaceBackslash(paths[i])]

\* studiolibrary.renamePathInFile: the record stored under src moves to dst
renamePathInFile(text, src, dst) ==
    LET data == readJson(text)
        s == ReplaceBackslash(src)
        t == ReplaceBackslash(dst)
    IN json_dumps(IF s \in DOMAIN data
                  THEN [k \in (DOMAIN data \ {s}) \cup {t} |-> IF k = t THEN data[s] ELSE data[k]]
                  ELSE data)

-----------------------------------------------------------------------------
(* LibraryModel: the dirty state *)

\* LibraryModel.mtime
mtime == dbMtime

\* the state of the database file: a write makes the clock tick, and a removal
\* takes the time stamp away
DbVersion == [mtime |-> dbMtime, clock |-> clock]

\* createItems has not looked for the items since __init__
NoDiscovery == [mtime |-> -1, clock |-> -1]

\* LibraryModel.isDirty
isDirty == _mtime # mtime

\* what LibraryModel.read returns (and leaves in _data)
read == IF isDirty THEN readJson(dbText) ELSE _data

\* a write of the database file: saveJson
WriteDb(text) ==
    /\ clock' = clock + 1
    /\ dbText' = text
    /\ dbMtime' = clock + 1

\* a saveJson that is not running, and one that has opened the file for
\* data, which held previous before
Idle == [pc |-> "idle"]
Opened(data, previous) == [pc |-> "opened", data |-> data, previous |-> previous]

\* no tree widget is shown
NoTree == [rows |-> <<>>]

-----------------------------------------------------------------------------
(* Inputs of the calls *)

Columns == {"a", "b", "Custom Order"}

\* the items handed to the calls: the paths they were made for, and their
\* path()
RawItemPaths == {PathLX, PathLXBackslash, PathAY}
ItemInputs == {LibraryItem_path(q) : q \in RawItemPaths}

\* the lists of at most MaxItems distinct items
ItemLists ==
    {l \in UNION {[1..n -> ItemInputs] : n \in 1..MaxItems} :
        \A i, j \in 1..Len(l) : i # j => l[i] # l[j]}

RecordInputs == {EmptyDict, [c \in {"a"} |-> "1"], [c \in {"b"} |-> "2"]}

\* the mappings handed to save, and the texts another process writes
SaveInputs ==
    {EmptyDict,
     [p \in {PathLX} |-> [c \in {"a"} |-> "1"]],
     [p \in {PathLX, PathAZ} |-> EmptyDict]}
ExternalTexts == {Garbage, EmptyText} \cup {json_dumps(d) : d \in SaveInputs}

\* the bare names and paths handed to renameItems
RenameInputs == {<<"z", ".pose">>}

-----------------------------------------------------------------------------
(* LibraryModel: the calls *)

\* the call or event before this one, as read and sync record it
After == [op |-> last.op, arg |-> last.arg]

\* one more call: its record replaces the previous call's
Call(op, arg, more) ==
    /\ calls' = calls + 1
    /\ last' = [op |-> op, arg |-> arg] @@ more

\* LibraryModel.read as it would be without its setDirty(False): the
\* database is loaded and the recorded timestamp stays as it was
Read_noSetDirty ==
    /\ calls < MaxCalls
    /\  \E data \in {read} :
            /\ _data' = data
            /\ Call("read", <<>>, [ret |-> data, after |-> After])
            /\ UNCHANGED <<tree, writer, dirs, files, dbText, dbMtime, clock, _mtime, _watcher, pending, _items, owed, discovered>>

\* LibraryModel.read
Read ==
    /\ calls < MaxCalls
    /\  \E data \in {read} :
            /\ _data' = data
            /\ _mtime' = mtime
            /\ Call("read", <<>>, [ret |-> data, after |-> After])
            /\ UNCHANGED <<tree, writer, dirs, files, dbText, dbMtime, clock, _watcher, pending, _items, owed, discovered>>

\* LibraryModel.save
Save ==
    /\ calls < MaxCalls
    /\  \E d \in SaveInputs :
            /\ WriteDb(json_dumps(d))
            /\ Call("save", d, <<>>)
            /\ UNCHANGED <<tree, writer, dirs, files, _data, _mtime, _watcher, pending, _items, owed, discovered>>

\* the mapping sync would leave in data if it inserted the paths as the walk
\* gives them, not the paths of the items
syncData_walkPaths(data, f, d) ==
    LET kept == {p \in DOMAIN data : Exists(f, d, p)}
        found == UNION {walk(f, plat) : plat \in Platforms}
    IN [p \in kept \cup found |-> IF p \in kept THEN data[p] ELSE EmptyDict]

\* the mapping sync leaves in data: the records of the paths that exist, and
\* an empty record for every item found that has none
syncData(data, f, d) ==
    LET kept == {p \in DOMAIN data : Exists(f, d, p)}
    IN [p \in kept \cup findItems(f) |-> IF p \in kept THEN data[p] ELSE EmptyDict]

\* sync's isDirty as it would be if the insertion loop set it for every item
\* found, with or without a record
syncDirty_everyItem(data, f, d) ==
    \/ \E p \in DOMAIN data : ~Exists(f, d, p)
    \/ findItems(f) # {}

\* sync's isDirty: a record was deleted or inserted
syncDirty(data, f, d) ==
    \/ \E p \in DOMAIN data : ~Exists(f, d, p)
    \/ \E p \in findItems(f) : p \notin DOMAIN data

\* LibraryModel.sync
Sync ==
    /\ calls < MaxCalls
    /\  \E data \in {read} :
        \E synced \in {syncData(data, files, dirs)}, isDirty_ \in {syncDirty(data, files, dirs)} :
            /\ _data' = synced
            /\ _mtime' = mtime
            /\ IF isDirty_
               THEN WriteDb(json_dumps(synced))
               ELSE UNCHANGED <<dbText, dbMtime, clock>>
            /\ Call("sync", <<>>, [dataChanged |-> IF isDirty_ THEN 1 ELSE 0,
                                   saved |-> isDirty_, after |-> After])
            /\ UNCHANGED <<tree, writer, dirs, files, _watcher, pending, _items, owed, discovered>>

\* LibraryModel.createItems: when the model is dirty the items are looked for,
\* kept in _items and given their data by loadItemData, whose read() leaves the
\* model clean; _items is returned. The items are modelled by their paths, and
\* the list by the set of them
CreateItems ==
    /\ calls < MaxCalls
    /\  \E data \in {read}, items \in {IF isDirty THEN findItems(files) ELSE _items} :
            /\ _items' = items
            /\ _data' = data
            /\ _mtime' = mtime
            /\ discovered' = IF isDirty THEN DbVersion ELSE discovered
            /\ Call("createItems", <<>>, [items |-> items, after |-> After])
            /\ UNCHANGED <<tree, writer, dirs, files, dbText, dbMtime, clock, _watcher, pending, owed>>

\* the mapping updatePaths saves
updatePaths(data_, paths, data) ==
    LET ps == Range(normPaths(paths))
    IN [p \in DOMAIN data_ \cup ps |->
           IF p \notin ps THEN data_[p]
           ELSE IF p \in DOMAIN data_ THEN DictUpdate(data_[p], data)
           ELSE data]

\* LibraryModel.addItems (addPaths, updatePaths)
AddItems ==
    /\ calls < MaxCalls
    /\  \E items \in ItemLists, data \in RecordInputs :
            \E saved \in {updatePaths(read, items, data)} :
               /\ _data' = saved
               /\ _mtime' = mtime
               /\ WriteDb(json_dumps(saved))
               /\ Call("addItems", <<items, data>>,
                       [dataChanged |-> 1])
               /\ UNCHANGED <<tree, writer, dirs, files, _watcher, pending, _items, owed, discovered>>

\* the mapping removePaths saves
removePaths(data, paths) ==
    [p \in DOMAIN data \ Range(normPaths(paths)) |-> data[p]]

\* LibraryModel.removeItems
RemoveItems ==
    /\ calls < MaxCalls
    /\  \E items \in ItemLists :
            \E saved \in {removePaths(read, items)} :
               /\ _data' = saved
               /\ _mtime' = mtime
               /\ WriteDb(json_dumps(saved))
               /\ Call("removeItems", items, [dataChanged |-> 1])
               /\ UNCHANGED <<tree, writer, dirs, files, _watcher, pending, _items, owed, discovered>>

\* LibraryModel.renamePath as it would be if the database file were left as
\* it is after the rename of the path
renamePath_fileOnly(st, plat, src, name) ==
    LET r == cmds_renamePath(st.files, st.dirs, plat, src, name, NoPath, FALSE)
    IN IF r.outcome # "renamed"
       THEN [st EXCEPT !.outcome = r.outcome, !.files = r.files, !.dirs = r.dirs]
       ELSE [st EXCEPT !.outcome = "renamed", !.ret = r.ret,
                       !.files = r.files, !.dirs = r.dirs]

\* LibraryModel.renamePath, on st: the filesystem, the database text and the
\* outcome of the calls so far
renamePath(st, plat, src, name) ==
    LET r == CHOOSE r \in {cmds_renamePath(st.files, st.dirs, plat, src, name, NoPath, FALSE)} : TRUE
    IN IF r.outcome # "renamed"
       THEN [st EXCEPT !.outcome = r.outcome, !.files = r.files, !.dirs = r.dirs]
       ELSE [st EXCEPT !.outcome = "renamed", !.ret = r.ret,
                       !.files = r.files, !.dirs = r.dirs,
                       !.text = renamePathInFile(st.text, src, r.ret),
                       !.writes = st.writes + 1]

\* the loop of renameItems from item i on: dst is assigned what renamePath
\* returned and is handed to the next item's renamePath
RECURSIVE renameItemsLoop(_, _, _, _, _)
renameItemsLoop(st, plat, items, i, dst) ==
    IF i > Len(items) THEN st
    ELSE LET r == CHOOSE r \in {renamePath(st, plat, st.paths[i], dst)} : TRUE
         IN IF r.outcome # "renamed" THEN r
            ELSE renameItemsLoop([r EXCEPT !.paths[i] = r.ret], plat, items, i + 1, r.ret)

\* LibraryModel.renameItems
RenameItems ==
    /\ calls < MaxCalls
    /\  \E items \in ItemLists, dst \in RenameInputs, platform \in Platforms :
            LET st0 == [files |-> files, dirs |-> dirs, text |-> dbText, writes |-> 0,
                        outcome |-> "renamed", ret |-> NoPath, paths |-> items]
            IN \E st \in {renameItemsLoop(st0, platform, items, 1, dst)} :
               /\ files' = st.files
               /\ dirs' = st.dirs
               /\ clock' = clock + st.writes
               /\ dbText' = st.text
               /\ dbMtime' = IF st.writes > 0 THEN clock + st.writes ELSE dbMtime
               /\ Call("renameItems", <<items, dst>>,
                       [outcome |-> st.outcome, paths |-> st.paths,
                        dataChanged |-> IF st.outcome = "renamed" THEN 1 ELSE 0])
               /\ UNCHANGED <<tree, writer, _data, _mtime, _watcher, pending, _items, owed, discovered>>

\* the mapping saveItemData hands to updateJson: for every item the text of
\* the columns asked for; setdefault keeps the first of two items of one path
itemData(items, columns) ==
    LET cols == IF columns = {} THEN {"Custom Order"} ELSE columns
        paths == {items[i].path : i \in 1..Len(items)}
        first(p) == CHOOSE i \in 1..Len(items) :
                        /\ items[i].path = p
                        /\ \A j \in 1..Len(items) : items[j].path = p => i <= j
    IN [p \in paths |-> [c \in cols |-> items[first(p)].text[c]]]

\* the items handed to saveItemData: a path and the text of every column
TextInputs == {[c \in Columns |-> "1"], [c \in Columns |-> "2"]}
ItemObjects == {<<[path |-> p, text |-> t]>> : p \in ItemInputs, t \in TextInputs}
ColumnInputs == {{}, {"b"}}

\* LibraryModel.saveItemData
SaveItemData ==
    /\ calls < MaxCalls
    /\  \E items \in ItemObjects, columns \in ColumnInputs :
            /\ WriteDb(updateJson(dbText, itemData(items, columns)))
            /\ Call("saveItemData", <<items, columns>>, <<>>)
            /\ UNCHANGED <<tree, writer, dirs, files, _data, _mtime, _watcher, pending, _items, owed, discovered>>

\* LibraryModel.setDirty
SetDirty ==
    /\ calls < MaxCalls
    /\  \E value \in BOOLEAN :
            /\ _mtime' = IF value THEN NoMtime ELSE mtime
            /\ Call("setDirty", value, <<>>)
            /\ UNCHANGED <<tree, writer, dirs, files, dbText, dbMtime, clock, _data, _watcher, pending, _items, owed, discovered>>

\* LibraryModel.startWatcher: the thread is created, its triggered signal
\* connected to _fileChanged, and started
StartWatcher ==
    /\ ~_watcher
    /\ _watcher' = TRUE
    /\ UNCHANGED <<tree, writer, dirs, files, dbText, dbMtime, clock, _data, _mtime, pending, calls, last, _items, owed, discovered>>

\* LibraryModel.stopWatcher: the thread is terminated and forgotten; an event
\* it has queued for the model stays queued
StopWatcher ==
    /\ _watcher
    /\ _watcher' = FALSE
    /\ UNCHANGED <<tree, writer, dirs, files, dbText, dbMtime, clock, _data, _mtime, pending, calls, last, _items, owed, discovered>>

\* the watcher thread reaches its repeat rate: triggered is emitted in the
\* thread and queued for the model, which lives in the caller's thread
Triggered ==
    /\ _watcher
    /\ ~pending
    /\ pending' = TRUE
    /\ UNCHANGED <<tree, writer, dirs, files, dbText, dbMtime, clock, _data, _mtime, _watcher, calls, last, _items, owed, discovered>>

\* LibraryModel._fileChanged, run for a queued triggered event: when the
\* model is dirty, setDirty(False) and fileChanged is emitted
FileChanged ==
    /\ pending
    /\ pending' = FALSE
    /\ _mtime' = IF isDirty THEN mtime ELSE _mtime
    /\ owed' = IF isDirty THEN FALSE ELSE owed
    /\ UNCHANGED <<tree, writer, dirs, files, dbText, dbMtime, clock, _data, _watcher, calls, last, _items, discovered>>

-----------------------------------------------------------------------------
(* The environment *)

\* another process rewrites the database file
ExternalWrite ==
    /\ calls < MaxCalls
    /\  \E text \in ExternalTexts :
            /\ WriteDb(text)
            /\ Call("external", text, <<>>)
            /\ owed' = TRUE
            /\ UNCHANGED <<tree, writer, dirs, files, _data, _mtime, _watcher, pending, _items, discovered>>

\* another process removes the database file; each written file can be
\* removed once, so the event needs no bound of its own
ExternalRemove ==
    /\ dbText # NoFile
    /\ dbText' = NoFile
    /\ dbMtime' = NoMtime
    /\ last' = [op |-> "external", arg |-> NoFile]
    /\ UNCHANGED <<tree, writer, dirs, files, clock, _data, _mtime, _watcher, pending, calls, _items, owed, discovered>>

\* an item file appears in an existing directory
FsCreate ==
    /\ calls < MaxCalls
    /\  \E p \in ItemInputs :
            /\ ~Exists(files, dirs, p)
            /\ Dirname(p) \in dirs
            /\ files' = files \cup {p}
            /\ Call("fs", p, <<>>)
            /\ UNCHANGED <<tree, writer, dirs, dbText, dbMtime, clock, _data, _mtime, _watcher, pending, _items, owed, discovered>>

\* an item file is deleted
FsRemove ==
    /\ calls < MaxCalls
    /\  \E p \in files :
            /\ files' = files \ {p}
            /\ Call("fs", p, <<>>)
            /\ UNCHANGED <<tree, writer, dirs, dbText, dbMtime, clock, _data, _mtime, _watcher, pending, _items, owed, discovered>>

\* the paths and names handed to cmds.renamePath
SrcInputs == {PathLX, PathLXBackslash, PathCX}
DstInputs == {<<"x", ".pose">>, <<"z">>, PathAY, DirC \o <<Sep, "z">>, DirCD \o <<Sep, "z">>}
ExtInputs == {NoPath, <<".pose">>}

\* a call of cmds.renamePath
CmdsRenamePath ==
    /\ calls < MaxCalls
    /\  \E src \in SrcInputs, dst \in DstInputs, extension \in ExtInputs,
           force \in BOOLEAN, platform \in Platforms :
            \E r \in {cmds_renamePath(files, dirs, platform, src, dst, extension, force)} :
                /\ files' = r.files
                /\ dirs' = r.dirs
                /\ Call("cmds.renamePath", <<src, dst, extension, force, platform>>,
                        [outcome |-> r.outcome, ret |-> r.ret])
                /\ UNCHANGED <<tree, writer, dbText, dbMtime, clock, _data, _mtime, _watcher, pending, _items, owed, discovered>>

-----------------------------------------------------------------------------
(* The specification of the library model *)

\* LibraryModel.__init__ (EnableWatcher is False), in a library that holds
\* one folder, some of the items and no database file yet
Init ==
    /\ dirs = {RootDir, LibDir, DirA}
    /\ files \in SUBSET ItemInputs
    /\ dbText = NoFile
    /\ dbMtime = NoMtime
    /\ clock = 0
    /\ _data = EmptyDict
    /\ _mtime = NoMtime
    /\ _watcher = FALSE
    /\ _items = {}
    /\ discovered = NoDiscovery
    /\ owed = FALSE
    /\ pending = FALSE
    /\ writer = Idle
    /\ tree = NoTree
    /\ calls = 0
    /\ last = [op |-> "__init__", arg |-> <<>>]

Next ==
    \/ Read
    \/ Save
    \/ Sync
    \/ AddItems
    \/ RemoveItems
    \/ RenameItems
    \/ SaveItemData
    \/ SetDirty
    \/ StartWatcher
    \/ StopWatcher
    \/ Triggered
    \/ FileChanged
    \/ ExternalWrite
    \/ ExternalRemove
    \/ FsCreate
    \/ FsRemove

Spec == Init /\ [][Next]_vars

-----------------------------------------------------------------------------
(* cmds.saveJson step by step, beside a reader of the same file *)

\* a value that json.dumps cannot encode
PyObject == "<object>"
Serializable(d) == \A p \in DOMAIN d : \A c \in DOMAIN d[p] : d[p][c] # PyObject

\* the data handed to saveJson
SaveJsonInputs == SaveInputs \cup {[p \in {PathLX} |-> [c \in {"a"} |-> PyObject]]}

\* saveJson: open(path, "w") creates or truncates the file
SaveJsonOpen ==
    /\ calls < MaxCalls
    /\ writer.pc = "idle"
    /\  \E data \in SaveJsonInputs :
            /\ writer' = Opened(data, dbText)
            /\ WriteDb(EmptyText)
            /\ Call("saveJson", data, [outcome |-> "opened"])
            /\ UNCHANGED <<tree, dirs, files, _data, _mtime, _watcher, pending, _items, owed, discovered>>

\* saveJson: json.dumps raises for data it cannot encode, and the with
\* statement closes the file as it is
SaveJsonRaise ==
    /\ writer.pc = "opened"
    /\ ~Serializable(writer.data)
    /\ writer' = Idle
    /\ last' = [op |-> "saveJson", arg |-> writer.data, outcome |-> "TypeError"]
    /\ UNCHANGED <<tree, dirs, files, dbText, dbMtime, clock, _data, _mtime, _watcher, pending, calls, _items, owed, discovered>>

\* saveJson: f.write hands the text to the file object, whose buffer reaches
\* the file in parts when the text is longer than the buffer
SaveJsonFlush ==
    /\ writer.pc = "opened"
    /\ Serializable(writer.data)
    /\ writer' = [writer EXCEPT !.pc = "flushed"]
    /\ WriteDb(Garbage)
    /\ UNCHANGED <<tree, dirs, files, _data, _mtime, _watcher, pending, calls, last, _items, owed, discovered>>

\* saveJson: the with statement closes the file, with the whole text in it
SaveJsonClose ==
    /\ writer.pc \in {"opened", "flushed"}
    /\ Serializable(writer.data)
    /\ writer' = Idle
    /\ WriteDb(json_dumps(writer.data))
    /\ last' = [op |-> "saveJson", arg |-> writer.data, outcome |-> "saved"]
    /\ UNCHANGED <<tree, dirs, files, _data, _mtime, _watcher, pending, calls, _items, owed, discovered>>

\* readJson of the file by a reader that runs beside the saveJson
ReadJson ==
    /\ calls < MaxCalls
    /\ Call("readJson", <<>>, [ret |-> readJson(dbText), text |-> dbText])
    /\ UNCHANGED <<tree, dirs, files, dbText, dbMtime, clock, _data, _mtime, _watcher, pending, writer, _items, owed, discovered>>

\* a model constructed in a library whose database file may exist already
InitSave ==
    /\ dirs = {RootDir, LibDir, DirA}
    /\ files \in SUBSET ItemInputs
    /\ dbText \in {NoFile} \cup {json_dumps(d) : d \in SaveInputs}
    /\ clock = IF dbText = NoFile THEN 0 ELSE 1
    /\ dbMtime = IF dbText = NoFile THEN NoMtime ELSE clock
    /\ _data = EmptyDict
    /\ _mtime = NoMtime
    /\ _watcher = FALSE
    /\ _items = {}
    /\ discovered = NoDiscovery
    /\ owed = FALSE
    /\ pending = FALSE
    /\ writer = Idle
    /\ tree = NoTree
    /\ calls = 0
    /\ last = [op |-> "__init__", arg |-> <<>>]

NextSave ==
    \/ SaveJsonOpen
    \/ SaveJsonRaise
    \/ SaveJsonFlush
    \/ SaveJsonClose
    \/ ReadJson

SpecSave == InitSave /\ [][NextSave]_vars

\* the calls of cmds.renamePath alone, on a filesystem that changes
NextRename ==
    \/ CmdsRenamePath
    \/ FsCreate
    \/ FsRemove

SpecRename == Init /\ [][NextRename]_vars

-----------------------------------------------------------------------------
(* The CombinedTreeWidget: texts, sorting, grouping and the custom order.
   A text is a sequence of characters; an item of the widget is known by its
   number, a row is an item or a group header. *)

\* the characters of the texts, in the order of their codes
Alphabet == <<"0", "1", "2", "3", "4", "5", "6", "7", "8", "9", "A", "B", "a", "b">>
Ord(c) == CHOOSE i \in 1..Len(Alphabet) : Alphabet[i] = c

\* str.lower
lower(s) ==
    [i \in 1..Len(s) |-> IF s[i] = "A" THEN "a" ELSE IF s[i] = "B" THEN "b" ELSE s[i]]

\* s < t for two texts, as Python compares strings
StrLess(s, t) ==
    \E k \in 1..Len(t) :
        /\ k <= Len(s) + 1
        /\ \A i \in 1..(k - 1) : s[i] = t[i]
        /\ k = Len(s) + 1 \/ Ord(s[k]) < Ord(t[k])

\* str(n) for a natural number
RECURSIVE str(_)
str(n) ==
    IF n < 10 THEN <<Alphabet[n + 1]>>
    ELSE str(n \div 10) \o <<Alphabet[(n % 10) + 1]>>

\* str.zfill left out: the text stays as it is
zfill_none(s, width) == s

\* str.zfill
zfill(s, width) ==
    IF Len(s) >= width THEN s ELSE [i \in 1..(width - Len(s)) |-> "0"] \o s

\* sorted as a sort that is not stable would place x: before the elements
\* with an equal key
RECURSIVE sortedPlace_beforeEqual(_, _, _, _, _)
sortedPlace_beforeEqual(out, x, key, reverse, p) ==
    IF p < Len(out)
       /\ (IF reverse THEN StrLess(key[x], key[out[p + 1]])
                      ELSE StrLess(key[out[p + 1]], key[x]))
    THEN sortedPlace_beforeEqual(out, x, key, reverse, p + 1)
    ELSE p

\* sorted: the place of x in the sorted list out, behind every element
\* that does not come after it
RECURSIVE sortedPlace(_, _, _, _, _)
sortedPlace(out, x, key, reverse, p) ==
    IF p < Len(out)
       /\ ~(IF reverse THEN StrLess(key[out[p + 1]], key[x])
                       ELSE StrLess(key[x], key[out[p + 1]]))
    THEN sortedPlace(out, x, key, reverse, p + 1)
    ELSE p

RECURSIVE sortedLoop(_, _, _, _, _)
sortedLoop(list, key, reverse, k, out) ==
    IF k > Len(list) THEN out
    ELSE LET p == sortedPlace(out, list[k], key, reverse, 0)
         IN sortedLoop(list, key, reverse, k + 1,
                       SubSeq(out, 1, p) \o <<list[k]>> \o SubSeq(out, p + 1, Len(out)))

\* sorted(list, key=..., reverse=...): the sort is stable, and stays stable
\* with reverse; key gives the key of each element
sorted(list, key, reverse) == sortedLoop(list, key, reverse, 1, <<>>)

\* list.insert(index, x)
ListInsert(list, index, x) ==
    LET i == IF index > Len(list) THEN Len(list) ELSE index
    IN SubSeq(list, 1, i) \o <<x>> \o SubSeq(list, i + 1, Len(list))

\* list.index(x), from 0
ListIndex(list, x) == (CHOOSE i \in 1..Len(list) : list[i] = x) - 1

\* list.pop(index)
ListPop(list, index) == SubSeq(list, 1, index) \o SubSeq(list, index + 2, Len(list))

\* the rows of the widget
ItemRow(item) == [item |-> item]
GroupRow(name) == [group |-> name]
IsItemRow(row) == "item" \in DOMAIN row

\* the header of the widget, its columns counted from 0, and a column that
\* is None
HeaderLabels == <<"Name", "Custom Order", "Type">>
NoColumn == -2
NoLabel == "<None>"

\* QTreeWidgetItem.text(column) of the header item: empty for a column the
\* header does not have
headerText(t, column) ==
    IF column + 1 \in DOMAIN t.header THEN t.header[column + 1] ELSE ""

\* CombinedTreeWidget.labelFromColumn
labelFromColumn(t, column) ==
    IF column # NoColumn THEN headerText(t, column) ELSE NoLabel

\* the labels the widget keeps, _headerLabels: a text, or a number that was
\* appended to them
TextLabel(label) == [text |-> label]
IntLabel(column) == [int |-> column]

\* CombinedTreeWidget.updateHeaderLabels
updateHeaderLabels(t) ==
    [t EXCEPT !._headerLabels = [c \in DOMAIN t.header |-> TextLabel(t.header[c])]]

\* columnFromLabel: the widget after it, with the labels read again from
\* the header when the label is not among them
columnFromLabel_labels(t, label) ==
    IF TextLabel(label) \notin Range(t._headerLabels) THEN updateHeaderLabels(t) ELSE t

\* CombinedTreeWidget.columnFromLabel: the column, or -1 when the label is
\* not among the labels
columnFromLabel(t, label) ==
    LET labels == columnFromLabel_labels(t, label)._headerLabels
    IN IF TextLabel(label) \in Range(labels)
       THEN ListIndex(labels, TextLabel(label)) ELSE -1

Ascending == "AscendingOrder"
Descending == "DescendingOrder"

\* a column that counts as true in a condition: not None and not 0
Truthy(column) == column # NoColumn /\ column # 0

\* CombinedTreeWidget.items: the items of the widget in the order of its
\* rows, without the group headers
widgetItems(t) ==
    LET rows == SelectSeq(t.rows, IsItemRow)
    IN [i \in 1..Len(rows) |-> rows[i].item]

\* CombinedWidgetItem.text(label) of every item, and displayText(column)
itemText(t, item, label) ==
    IF label \in DOMAIN t.text[item] THEN t.text[item][label] ELSE <<>>
textOf(t, label) == [i \in DOMAIN t.text |-> itemText(t, i, label)]
displayText(t, item, column) == itemText(t, item, labelFromColumn(t, column))

\* setItemsCustomOrder: padding=5
DefaultPadding == 5

\* setItemsCustomOrder as it would be without row += 1: every item gets the
\* first rank
RECURSIVE customOrderLoop_noIncrement(_, _, _, _, _)
customOrderLoop_noIncrement(text, items_, k, row, padding) ==
    IF k > Len(items_) THEN text
    ELSE customOrderLoop_noIncrement(
            [text EXCEPT ![items_[k]]["Custom Order"] = zfill(str(row), padding)],
            items_, k + 1, row, padding)

\* setItemsCustomOrder: the loop over the items from item k on
RECURSIVE customOrderLoop(_, _, _, _, _)
customOrderLoop(text, items_, k, row, padding) ==
    IF k > Len(items_) THEN text
    ELSE customOrderLoop(
            [text EXCEPT ![items_[k]]["Custom Order"] = zfill(str(row), padding)],
            items_, k + 1, row + 1, padding)

\* CombinedTreeWidget.setItemsCustomOrder
setItemsCustomOrder(t, items_, row, padding) ==
    [t EXCEPT !.text = customOrderLoop(t.text, items_, 1, row, padding)]

\* CombinedTreeWidget.itemsCustomOrder
itemsCustomOrder(t) == sorted(widgetItems(t), textOf(t, "Custom Order"), FALSE)

\* groupByColumn: the loop that puts a group header before an item whose
\* displayed group text differs from the current one
RECURSIVE groupLoop(_, _, _, _, _)
groupLoop(t, groupColumn, items_, k, currentGroupText) ==
    IF k > Len(items_) THEN <<>>
    ELSE LET groupText == displayText(t, items_[k], groupColumn)
             rest == groupLoop(t, groupColumn, items_, k + 1, groupText)
         IN IF groupText # currentGroupText
            THEN <<GroupRow(groupText), ItemRow(items_[k])>> \o rest
            ELSE <<ItemRow(items_[k])>> \o rest

\* CombinedTreeWidget.groupByColumn; a group order that is None is "None"
groupByColumn(t, groupColumn, groupOrder, items_) ==
    LET order == IF groupOrder = "None" THEN t._groupOrder ELSE groupOrder
        rows == IF Truthy(groupColumn)
                THEN groupLoop(t, groupColumn,
                               sorted(items_,
                                      [i \in DOMAIN t.text |->
                                          lower(itemText(t, i, labelFromColumn(t, groupColumn)))],
                                      order = Descending),
                               1, <<>>)
                ELSE [k \in 1..Len(items_) |-> ItemRow(items_[k])]
    IN [t EXCEPT !._groupOrder = order, !._groupColumn = groupColumn, !.rows = rows]

\* sortByColumn as it would be with the sort never reversed
sortByColumn_noReverse(t, sortColumn, sortOrder, groupColumn, groupOrder) ==
    LET column == IF ~Truthy(sortColumn) THEN 0 ELSE sortColumn
        sortColumnLabel == labelFromColumn(t, column)
        order == IF sortColumnLabel = "Custom Order" /\ sortOrder # Ascending
                 THEN Ascending ELSE sortOrder
        key == [i \in DOMAIN t.text |-> lower(itemText(t, i, sortColumnLabel))]
        t2 == [t EXCEPT !._sortOrder = order, !._sortColumn = column]
    IN groupByColumn(t2, groupColumn, groupOrder, sorted(widgetItems(t), key, FALSE))

\* CombinedTreeWidget.sortByColumn
sortByColumn(t, sortColumn, sortOrder, groupColumn, groupOrder) ==
    LET column == IF ~Truthy(sortColumn) THEN 0 ELSE sortColumn
        sortColumnLabel == labelFromColumn(t, column)
        order == IF sortColumnLabel = "Custom Order" /\ sortOrder # Ascending
                 THEN Ascending ELSE sortOrder
        key == [i \in DOMAIN t.text |-> lower(itemText(t, i, sortColumnLabel))]
        t2 == [t EXCEPT !._sortOrder = order, !._sortColumn = column]
    IN groupByColumn(t2, groupColumn, groupOrder,
                     sorted(widgetItems(t), key, order = Descending))

\* moveItems: the loop that pops the items from the ordered items
RECURSIVE popLoop(_, _, _)
popLoop(orderedItems, items_, k) ==
    IF k > Len(items_) THEN orderedItems
    ELSE popLoop(ListPop(orderedItems, ListIndex(orderedItems, items_[k])), items_, k + 1)

\* moveItems: the loop that inserts the removed items, each at row
RECURSIVE insertLoop(_, _, _, _)
insertLoop(orderedItems, row, removedItems, k) ==
    IF k > Len(removedItems) THEN orderedItems
    ELSE insertLoop(ListInsert(orderedItems, row, removedItems[k]), row, removedItems, k + 1)

\* an itemAt that is None
NoItem == 0

\* CombinedTreeWidget.moveItems
moveItems(t, items_, itemAt) ==
    LET column == columnFromLabel(t, "Custom Order")
        orderedItems == itemsCustomOrder(t)
        row == IF itemAt # NoItem THEN ListIndex(orderedItems, itemAt) ELSE 0
        moved == insertLoop(popLoop(orderedItems, items_, 1), row, items_, 1)
    IN sortByColumn(setItemsCustomOrder(t, moved, 1, DefaultPadding), column, Ascending,
                    t._groupColumn, t._groupOrder)

\* the width of a column that has none set
DefaultWidth == 100

\* the number of items in the widget
MaxRows == 3

TreeItems == 1..MaxRows

\* the texts the items show: names that differ in case only, and types
NameTexts == <<<<"a">>, <<"A">>, <<"b">>>>
TypeTexts == {<<>>, <<"a">>, <<"b">>}

\* the custom order texts of the items: the ranks of an earlier
\* setItemsCustomOrder, in the order of the rows or against it, or the same
\* rank for every item
CustomOrderTexts ==
    {[i \in TreeItems |-> zfill(str(i), DefaultPadding)],
     [i \in TreeItems |-> zfill(str(MaxRows + 1 - i), DefaultPadding)],
     [i \in TreeItems |-> zfill(str(1), DefaultPadding)]}

\* the order in which the items were added to the widget
RowOrders ==
    {[k \in TreeItems |-> k], [k \in TreeItems |-> MaxRows + 1 - k]}

\* the selections handed to moveItems: at most MaxItems items, each once
Selections ==
    {l \in UNION {[1..n -> TreeItems] : n \in 1..MaxItems} :
        \A i, j \in 1..Len(l) : i # j => l[i] # l[j]}

SortColumnInputs == {NoColumn, 0, 1, 2}
GroupColumnInputs == {NoColumn, 0, 2}
OrderInputs == {Ascending, Descending}

\* CombinedTreeWidget.moveItems, on a widget that has done nothing yet
MoveItems ==
    /\ calls = 0
    /\  \E selection \in Selections, itemAt \in TreeItems \cup {NoItem} :
            /\ tree' = moveItems(tree, selection, itemAt)
            /\ Call("moveItems", <<selection, itemAt>>, <<>>)
            /\ UNCHANGED <<dirs, files, dbText, dbMtime, clock, _data, _mtime, _watcher,
                           pending, writer, _items, owed, discovered>>

\* CombinedTreeWidget.sortByColumn, on a widget that has done nothing yet
SortByColumn ==
    /\ calls = 0
    /\  \E sortColumn \in SortColumnInputs, sortOrder \in OrderInputs,
           groupColumn \in GroupColumnInputs, groupOrder \in OrderInputs :
            /\ tree' = sortByColumn(tree, sortColumn, sortOrder, groupColumn, groupOrder)
            /\ Call("sortByColumn", <<sortColumn, sortOrder, groupColumn, groupOrder>>, <<>>)
            /\ UNCHANGED <<dirs, files, dbText, dbMtime, clock, _data, _mtime, _watcher,
                           pending, writer, _items, owed, discovered>>

\* CombinedTreeWidget.__init__ and the items added to the widget, with their
\* texts
InitTree ==
    /\ dirs = {RootDir, LibDir, DirA}
    /\ files = {}
    /\ dbText = NoFile
    /\ dbMtime = NoMtime
    /\ clock = 0
    /\ _data = EmptyDict
    /\ _mtime = NoMtime
    /\ _watcher = FALSE
    /\ _items = {}
    /\ discovered = NoDiscovery
    /\ owed = FALSE
    /\ pending = FALSE
    /\ writer = Idle
    /\ \E type \in [TreeItems -> TypeTexts], order \in CustomOrderTexts,
          rows \in RowOrders :
            tree = [rows |-> [k \in TreeItems |-> ItemRow(rows[k])],
                    text |-> [i \in TreeItems |->
                                [l \in Range(HeaderLabels) |->
                                    IF l = "Name" THEN NameTexts[(i % 3) + 1]
                                    ELSE IF l = "Type" THEN type[i]
                                    ELSE order[i]]],
                    header |-> HeaderLabels,
                    _headerLabels |-> [c \in DOMAIN HeaderLabels |-> TextLabel(HeaderLabels[c])],
                    hidden |-> [c \in DOMAIN HeaderLabels |-> FALSE],
                    width |-> [c \in DOMAIN HeaderLabels |-> DefaultWidth],
                    _sortColumn |-> NoColumn,
                    _sortOrder |-> Ascending,
                    _groupColumn |-> NoColumn,
                    _groupOrder |-> Ascending]
    /\ calls = 0
    /\ last = [op |-> "__init__", arg |-> <<>>]

NextTree ==
    \/ MoveItems
    \/ SortByColumn

SpecTree == InitTree /\ [][NextTree]_vars

\* the largest number of items given a custom order at once, and the
\* padding widths
MaxCount == 10
PaddingInputs == {1, 2}

\* CombinedTreeWidget.setItemsCustomOrder for the items of the widget in the
\* order of its rows, with a padding
SetItemsCustomOrder ==
    /\ calls = 0
    /\  \E padding \in PaddingInputs :
            /\ tree' = setItemsCustomOrder(tree, widgetItems(tree), 1, padding)
            /\ Call("setItemsCustomOrder", <<widgetItems(tree), padding>>, <<>>)
            /\ UNCHANGED <<dirs, files, dbText, dbMtime, clock, _data, _mtime, _watcher,
                           pending, writer, _items, owed, discovered>>

\* CombinedTreeWidget.__init__ and up to MaxCount items added to the widget
\* in some order, none with a custom order yet
InitRank ==
    /\ dirs = {RootDir, LibDir, DirA}
    /\ files = {}
    /\ dbText = NoFile
    /\ dbMtime = NoMtime
    /\ clock = 0
    /\ _data = EmptyDict
    /\ _mtime = NoMtime
    /\ _watcher = FALSE
    /\ _items = {}
    /\ discovered = NoDiscovery
    /\ owed = FALSE
    /\ pending = FALSE
    /\ writer = Idle
    /\ \E n \in 1..MaxCount :
         \E r \in 0..(n - 1) :
            tree = [rows |-> [k \in 1..n |-> ItemRow(((k - 1 + r) % n) + 1)],
                    text |-> [i \in 1..n |->
                                [l \in Range(HeaderLabels) |->
                                    IF l = "Name" THEN NameTexts[(i % 2) + 1] ELSE <<>>]],
                    header |-> HeaderLabels,
                    _headerLabels |-> [c \in DOMAIN HeaderLabels |-> TextLabel(HeaderLabels[c])],
                    hidden |-> [c \in DOMAIN HeaderLabels |-> FALSE],
                    width |-> [c \in DOMAIN HeaderLabels |-> DefaultWidth],
                    _sortColumn |-> NoColumn,
                    _sortOrder |-> Ascending,
                    _groupColumn |-> NoColumn,
                    _groupOrder |-> Ascending]
    /\ calls = 0
    /\ last = [op |-> "__init__", arg |-> <<>>]

NextRank == SetItemsCustomOrder

SpecRank == InitRank /\ [][NextRank]_vars

\* updateCustomOrder as it would be with row counted up only for the items
\* that get a custom order
RECURSIVE updateLoop_countAssigned(_, _, _, _, _)
updateLoop_countAssigned(text, items_, k, row, padding) ==
    IF k > Len(items_) THEN text
    ELSE IF text[items_[k]]["Custom Order"] = <<>>
         THEN updateLoop_countAssigned(
                [text EXCEPT ![items_[k]]["Custom Order"] = zfill(str(row), padding)],
                items_, k + 1, row + 1, padding)
         ELSE updateLoop_countAssigned(text, items_, k + 1, row, padding)

\* updateCustomOrder: the loop over the items from item k on
RECURSIVE updateLoop(_, _, _, _, _)
updateLoop(text, items_, k, row, padding) ==
    IF k > Len(items_) THEN text
    ELSE IF text[items_[k]]["Custom Order"] = <<>>
         THEN updateLoop(
                [text EXCEPT ![items_[k]]["Custom Order"] = zfill(str(row), padding)],
                items_, k + 1, row + 1, padding)
         ELSE updateLoop(text, items_, k + 1, row + 1, padding)

\* CombinedTreeWidget.updateCustomOrder
updateCustomOrder(t) ==
    [t EXCEPT !.text = updateLoop(t.text, widgetItems(t), 1, 1, DefaultPadding)]

\* the custom orders the items start with: none, or one of an earlier
\* numbering
OrderTextInputs ==
    {<<>>, zfill(str(1), DefaultPadding), zfill(str(2), DefaultPadding),
     zfill(str(7), DefaultPadding)}

\* CombinedTreeWidget.updateCustomOrder
UpdateCustomOrder ==
    /\ calls < MaxCalls
    /\ tree' = updateCustomOrder(tree)
    /\ Call("updateCustomOrder", <<>>, <<>>)
    /\ UNCHANGED <<dirs, files, dbText, dbMtime, clock, _data, _mtime, _watcher,
                   pending, writer, _items, owed, discovered>>

\* CombinedTreeWidget.__init__ and the items added to the widget in some
\* order, some of them without a custom order
InitOrder ==
    /\ dirs = {RootDir, LibDir, DirA}
    /\ files = {}
    /\ dbText = NoFile
    /\ dbMtime = NoMtime
    /\ clock = 0
    /\ _data = EmptyDict
    /\ _mtime = NoMtime
    /\ _watcher = FALSE
    /\ _items = {}
    /\ discovered = NoDiscovery
    /\ owed = FALSE
    /\ pending = FALSE
    /\ writer = Idle
    /\ \E order \in [TreeItems -> OrderTextInputs], rows \in RowOrders :
            tree = [rows |-> [k \in TreeItems |-> ItemRow(rows[k])],
                    text |-> [i \in TreeItems |->
                                [l \in Range(HeaderLabels) |->
                                    IF l = "Name" THEN NameTexts[(i % 2) + 1]
                                    ELSE IF l = "Type" THEN <<>>
                                    ELSE order[i]]],
                    header |-> HeaderLabels,
                    _headerLabels |-> [c \in DOMAIN HeaderLabels |-> TextLabel(HeaderLabels[c])],
                    hidden |-> [c \in DOMAIN HeaderLabels |-> FALSE],
                    width |-> [c \in DOMAIN HeaderLabels |-> DefaultWidth],
                    _sortColumn |-> NoColumn,
                    _sortOrder |-> Ascending,
                    _groupColumn |-> NoColumn,
                    _groupOrder |-> Ascending]
    /\ calls = 0
    /\ last = [op |-> "__init__", arg |-> <<>>]

NextOrder == UpdateCustomOrder

SpecOrder == InitOrder /\ [][NextOrder]_vars

-----------------------------------------------------------------------------
(* cmds.generateUniquePath *)

\* the extensions of the item files
Extensions == {".pose"}

\* os.path.splitext and os.path.basename
splitext(p) ==
    IF p # <<>> /\ p[Len(p)] \in Extensions
    THEN <<SubSeq(p, 1, Len(p) - 1), <<p[Len(p)]>>>>
    ELSE <<p, <<>>>>
Basename(p) == SubSeq(p, RFindSep(p) + 1, Len(p))

\* cmds.splitPath
splitPath(path) ==
    LET parts == splitext(ReplaceBackslash(path))
    IN <<Dirname(parts[1]), Basename(parts[1]), parts[2]>>

\* u'{dirname}/{name} ({number}){extension}'.format(...)
formatPath(dirname, name, number, extension) ==
    dirname \o <<Sep>> \o name \o <<" ", "(">> \o str(number) \o <<")">> \o extension

\* generateUniquePath: the loop, with the number of os.path.exists calls
RECURSIVE uniqueLoop(_, _, _, _, _, _, _)
uniqueLoop(f, d, path, parts, attempt, attempts, checks) ==
    IF ~Exists(f, d, path)
    THEN [outcome |-> "returned", ret |-> path, checks |-> checks + 1]
    ELSE IF attempt + 1 >= attempts
         THEN [outcome |-> "ValueError", ret |-> NoPath, checks |-> checks + 1]
         ELSE uniqueLoop(f, d, formatPath(parts[1], parts[2], attempt + 1, parts[3]),
                         parts, attempt + 1, attempts, checks + 1)

\* cmds.generateUniquePath
generateUniquePath(f, d, path, attempts) ==
    uniqueLoop(f, d, path, splitPath(path), 1, attempts, 0)

\* the largest number of attempts handed to generateUniquePath
MaxAttempts == 4

\* the paths handed to generateUniquePath and the files that may exist: the
\* paths and their numbered names
UniquePathInputs == {PathLX, PathAY}
UniqueFiles ==
    UniquePathInputs
        \cup {formatPath(splitPath(p)[1], splitPath(p)[2], k, splitPath(p)[3]) :
                p \in {PathLX}, k \in 2..MaxAttempts}

\* a call of cmds.generateUniquePath
GenerateUniquePath ==
    /\ calls = 0
    /\  \E path \in UniquePathInputs, attempts \in 1..MaxAttempts :
        \E result \in {generateUniquePath(files, dirs, path, attempts)} :
            /\ Call("generateUniquePath", <<path, attempts>>, result)
            /\ UNCHANGED <<dirs, files, dbText, dbMtime, clock, _data, _mtime, _watcher,
                           pending, writer, tree, _items, owed, discovered>>

\* a library with some of the files
InitUnique ==
    /\ dirs = {RootDir, LibDir, DirA}
    /\ files \in SUBSET UniqueFiles
    /\ dbText = NoFile
    /\ dbMtime = NoMtime
    /\ clock = 0
    /\ _data = EmptyDict
    /\ _mtime = NoMtime
    /\ _watcher = FALSE
    /\ _items = {}
    /\ discovered = NoDiscovery
    /\ owed = FALSE
    /\ pending = FALSE
    /\ writer = Idle
    /\ tree = NoTree
    /\ calls = 0
    /\ last = [op |-> "__init__", arg |-> <<>>]

NextUnique == GenerateUniquePath

SpecUnique == InitUnique /\ [][NextUnique]_vars

-----------------------------------------------------------------------------
(* CombinedTreeWidget: the settings. A settings mapping is a record that has
   the keys given. *)

\* dict.get(key, default)
get(d, key, default) == IF key \in DOMAIN d THEN d[key] ELSE default

\* CombinedTreeWidget.sortOrderToInt and intToSortOrder
sortOrderToInt(sortOrder) == IF sortOrder = Ascending THEN 0 ELSE 1
intToSortOrder(value) == IF value = 0 THEN Ascending ELSE Descending

\* QTreeView.columnWidth: a hidden column has the width 0
columnWidth(t, c) == IF t.hidden[c] THEN 0 ELSE t.width[c]

\* CombinedTreeWidget.sortBySettings
sortBySettings(t) ==
    [sortOrder |-> sortOrderToInt(t._sortOrder),
     sortColumn |-> labelFromColumn(t, t._sortColumn),
     groupOrder |-> sortOrderToInt(t._groupOrder),
     groupColumn |-> labelFromColumn(t, t._groupColumn)]

\* CombinedTreeWidget.columnSettings; no two columns have one label
columnSettings(t) ==
    [label \in Range(t.header) |->
        LET c == ListIndex(t.header, label) + 1
        IN [hidden |-> t.hidden[c], width |-> columnWidth(t, c), index |-> c - 1]]

\* CombinedTreeWidget.settings
settings(t) == sortBySettings(t) @@ [columnSettings |-> columnSettings(t)]

\* CombinedTreeWidget.setColumnHidden for column c of the header: a column
\* narrower than 5, as a hidden one is, gets the width 100
setColumnHidden(t, c, value) ==
    LET t2 == [t EXCEPT !.hidden[c] = value]
    IN IF columnWidth(t2, c) < 5 THEN [t2 EXCEPT !.width[c] = 100] ELSE t2

\* setColumnSettings: the loop over the labels, each a label of the header,
\* taken in the order of their columns
RECURSIVE setColumnLoop(_, _, _)
setColumnLoop(t, columnSettings_, c) ==
    IF c > Len(t.header) THEN t
    ELSE IF t.header[c] \in DOMAIN columnSettings_
         THEN LET given == get(columnSettings_[t.header[c]], "width", 100)
                  width == IF given < 5 THEN 100 ELSE given
                  hidden == get(columnSettings_[t.header[c]], "hidden", FALSE)
                  t2 == columnFromLabel_labels(t, t.header[c])
              IN setColumnLoop(setColumnHidden([t2 EXCEPT !.width[c] = width], c, hidden),
                               columnSettings_, c + 1)
         ELSE setColumnLoop(t, columnSettings_, c + 1)

\* CombinedTreeWidget.setColumnSettings
setColumnSettings(t, columnSettings_) == setColumnLoop(t, columnSettings_, 1)

\* CombinedTreeWidget.addHeaderLabel with the number of a column as its
\* label: a number that is not among the labels is appended to them and the
\* labels go to QTreeWidget.setHeaderLabels, which takes texts only and
\* raises TypeError. The result is the widget and whether the call returned.
addHeaderLabel(t, column) ==
    IF IntLabel(column) \in Range(t._headerLabels)
    THEN [widget |-> t, returned |-> TRUE]
    ELSE [widget |-> [t EXCEPT !._headerLabels = Append(@, IntLabel(column))],
          returned |-> FALSE]

\* CombinedTreeWidget.setSettings: the widget after the call and whether
\* the call returned
setSettings(t, settings_) ==
    LET t1 == setColumnSettings(t, get(settings_, "columnSettings", <<>>))
        sortLabel == get(settings_, "sortColumn", NoLabel)
        groupLabel == get(settings_, "groupColumn", NoLabel)
        sortColumn == columnFromLabel(t1, sortLabel)
        t2 == columnFromLabel_labels(t1, sortLabel)
        groupColumn == columnFromLabel(t2, groupLabel)
        t3 == columnFromLabel_labels(t2, groupLabel)
        a1 == addHeaderLabel(t3, sortColumn)
        a2 == addHeaderLabel(a1.widget, groupColumn)
    IN IF ~a1.returned THEN a1
       ELSE IF ~a2.returned THEN a2
       ELSE [widget |-> sortByColumn(a2.widget, sortColumn,
                                     intToSortOrder(get(settings_, "sortOrder", 0)),
                                     groupColumn,
                                     intToSortOrder(get(settings_, "groupOrder", 0))),
             returned |-> TRUE]

\* the keys of a settings mapping that may be missing
SortKeys == {"sortOrder", "sortColumn", "groupOrder", "groupColumn"}

\* a label no column has
UnknownLabel == "Size"

\* the mappings handed to setSettings: the settings of the widget, the
\* settings without some of the keys, with a column label no column has, or
\* with the columns as another widget has them
SettingsInputs(t) ==
    LET s == settings(t)
        without(keys) == [k \in DOMAIN s \ keys |-> s[k]]
    IN {s, without(SortKeys), without({"sortColumn", "groupColumn"}),
        without({"groupColumn"}), without({"columnSettings"}),
        [s EXCEPT !.sortColumn = UnknownLabel],
        [s EXCEPT !.groupColumn = "Type", !.sortColumn = "Type", !.groupOrder = 1]}

\* CombinedTreeWidget.setSettings
SetSettings ==
    /\ calls < MaxCalls + 1
    /\  \E settings_ \in SettingsInputs(tree) :
        \E result \in {setSettings(tree, settings_)} :
            /\ tree' = result.widget
            /\ Call("setSettings", settings_,
                    [outcome |-> IF result.returned THEN "returned" ELSE "TypeError"])
            /\ UNCHANGED <<dirs, files, dbText, dbMtime, clock, _data, _mtime, _watcher,
                           pending, writer, _items, owed, discovered>>

\* the widths and the hidden columns the widget starts with
WidthInputs == {DefaultWidth, 120}

\* CombinedTreeWidget.__init__, the header set and the items added, with
\* the columns as the user left them
InitSettings ==
    /\ dirs = {RootDir, LibDir, DirA}
    /\ files = {}
    /\ dbText = NoFile
    /\ dbMtime = NoMtime
    /\ clock = 0
    /\ _data = EmptyDict
    /\ _mtime = NoMtime
    /\ _watcher = FALSE
    /\ _items = {}
    /\ discovered = NoDiscovery
    /\ owed = FALSE
    /\ pending = FALSE
    /\ writer = Idle
    /\ \E hidden \in BOOLEAN, width \in WidthInputs :
            tree = [rows |-> [i \in TreeItems |-> ItemRow(i)],
                    text |-> [i \in TreeItems |->
                                [l \in Range(HeaderLabels) |->
                                    IF l = "Name" THEN NameTexts[(i % 2) + 1]
                                    ELSE IF l = "Type" THEN <<Alphabet[11 + (i % 2)]>>
                                    ELSE zfill(str(i), DefaultPadding)]],
                    header |-> HeaderLabels,
                    _headerLabels |-> [c \in DOMAIN HeaderLabels |-> TextLabel(HeaderLabels[c])],
                    hidden |-> [c \in DOMAIN HeaderLabels |-> c = 3 /\ hidden],
                    width |-> [c \in DOMAIN HeaderLabels |-> IF c = 1 THEN width ELSE DefaultWidth],
                    _sortColumn |-> NoColumn,
                    _sortOrder |-> Ascending,
                    _groupColumn |-> NoColumn,
                    _groupOrder |-> Ascending]
    /\ calls = 0
    /\ last = [op |-> "__init__", arg |-> <<>>]

NextSettings ==
    \/ SortByColumn
    \/ SetSettings

SpecSettings == InitSettings /\ [][NextSettings]_vars

-----------------------------------------------------------------------------
(* Properties of the library model, checked under Spec *)

\* the database as persisted in the file
Persisted == readJson(dbText)

\* a step that is the call op
Step(op) == calls' = calls + 1 /\ last'.op = op

\* C1: after another process wrote the database file, the next read()
\* returns the file's new content, whatever polls of the watcher came between
\* the write and the read.
C1_ReadAfterExternalWrite ==
    (last.op = "read" /\ last.after.op = "external") => last.ret = readJson(dbText)

\* C2: save(d) followed by read(), with no modification by another process in
\* between, returns a mapping equal to d.
C2_ReadAfterSave ==
    (last.op = "read" /\ last.after.op = "save") => last.ret = last.after.arg

\* C3: a sync() that follows a sync() with no filesystem change in between
\* finds nothing to delete or insert: it does not save and does not emit
\* dataChanged.
C3_SecondSyncSilent ==
    (last.op = "sync" /\ last.after.op = "sync") => (last.dataChanged = 0 /\ ~last.saved)

\* the second of two sync() calls, the first of which inserted records
C3_Witness ==
    /\ last.op = "sync"
    /\ last.after.op = "sync"
    /\ DOMAIN Persisted # {}

\* C4: after sync() no key of the persisted database names a path absent from
\* the filesystem and every discovered item has a record; from an empty
\* database and the one item /lib/x.pose the database becomes
\* {"/lib/x.pose": {}} and dataChanged is emitted once.
C4_SyncReconciles ==
    [][Step("sync") =>
        /\ \A k \in DOMAIN readJson(dbText') : Exists(files', dirs', k)
        /\ \A p \in findItems(files') : p \in DOMAIN readJson(dbText')
        /\ (Persisted = EmptyDict /\ findItems(files) = {PathLX}) =>
            /\ readJson(dbText') = [p \in {PathLX} |-> EmptyDict]
            /\ last'.dataChanged = 1]_vars

\* C5: every update merges per path: after an update that writes a partial
\* record for a path, the path's record is the previous record updated with the
\* partial record, for updatePaths (addItems) and for updateJson (saveItemData).
C5_UpdatesMerge ==
    [][/\ Step("addItems") =>
            \A p \in Range(normPaths(last'.arg[1])) :
                readJson(dbText')[p] =
                    IF p \in DOMAIN Persisted
                    THEN DictUpdate(Persisted[p], last'.arg[2]) ELSE last'.arg[2]
       /\ Step("saveItemData") =>
            LET data == itemData(last'.arg[1], last'.arg[2])
            IN \A p \in DOMAIN data :
                readJson(dbText')[p] =
                    IF p \in DOMAIN Persisted
                    THEN DictUpdate(Persisted[p], data[p]) ELSE data[p]]_vars

\* C6: saveItemData leaves unchanged every value the database already holds
\* for a path and column it is asked to save.
C6_SaveItemDataKeepsExisting ==
    [][Step("saveItemData") =>
        LET data == itemData(last'.arg[1], last'.arg[2])
        IN \A p \in DOMAIN data \cap DOMAIN Persisted :
           \A c \in DOMAIN data[p] \cap DOMAIN Persisted[p] :
               readJson(dbText')[p][c] = Persisted[p][c]]_vars

\* C7: after removeItems(items) no item's filesystem entry exists, the
\* database has no record of its path, dataChanged was emitted once, and a
\* sync() that follows does not insert the paths again.
C7_RemoveItemsRemoves ==
    /\ last.op = "removeItems" =>
        /\ \A i \in 1..Len(last.arg) :
            /\ ~Exists(files, dirs, last.arg[i])
            /\ last.arg[i] \notin DOMAIN Persisted
        /\ last.dataChanged = 1
    /\ (last.op = "sync" /\ last.after.op = "removeItems") =>
        \A i \in 1..Len(last.after.arg) : last.after.arg[i] \notin DOMAIN Persisted

\* the destination of item src for the bare name dst: alongside src
Alongside(src, dst) == Dirname(src) \o <<Sep>> \o dst

\* C8: renameItems on several existing items of different directories, with a
\* bare name that is free in each directory, renames every item alongside its
\* own source and emits dataChanged once.
C8_RenameItemsBatch ==
    [][Step("renameItems") =>
        LET items == last'.arg[1]
            dst == last'.arg[2]
        IN (/\ Len(items) > 1
            /\ Sep \notin Range(dst)
            /\ \A i \in 1..Len(items) :
                /\ items[i] \in files
                /\ ~Exists(files, dirs, Alongside(items[i], dst))
            /\ \A i, j \in 1..Len(items) : i # j => Dirname(items[i]) # Dirname(items[j]))
           => /\ last'.outcome = "renamed"
              /\ last'.dataChanged = 1
              /\ \A i \in 1..Len(items) :
                  /\ last'.paths[i] = Alongside(items[i], dst)
                  /\ last'.paths[i] \in files'
                  /\ items[i] \notin files']_vars

\* C9: after a successful rename of an item from src to dst the database has
\* no record under src, the record that was under src is under dst, and the
\* item's path is dst, the entry that now exists in place of src.
C9_RenameMigratesRecord ==
    [][Step("renameItems") =>
        \A i \in 1..Len(last'.arg[1]) :
            LET src == last'.arg[1][i]
                dst == last'.paths[i]
            IN dst # src =>
                /\ src \notin DOMAIN readJson(dbText')
                /\ src \in DOMAIN Persisted =>
                    /\ dst \in DOMAIN readJson(dbText')
                    /\ readJson(dbText')[dst] = Persisted[src]
                /\ dst \in files' /\ src \notin files'
                /\ i = 1 => dst = Alongside(src, last'.arg[2])]_vars

\* a renamed item whose record, with its column, is under the new path
C9_Witness ==
    /\ last.op = "renameItems"
    /\ last.outcome = "renamed"
    /\ last.paths = <<PathLZ>>
    /\ PathLZ \in DOMAIN Persisted
    /\ Persisted[PathLZ] # EmptyDict
    /\ PathLX \notin DOMAIN Persisted

\* fileChanged is emitted in this step: _fileChanged runs for a queued event
\* and finds the model dirty
FileChangedEmitted == pending /\ ~pending' /\ isDirty

\* C11: once stopWatcher() has returned, no fileChanged is emitted until the
\* watcher is started again, also when a triggered event of the thread was
\* queued at the time of the stop and the model is dirty.
C11_NoEmitAfterStop ==
    [][FileChangedEmitted => _watcher]_vars

\* C12: whenever the recorded timestamp is none, after construction and
\* after setDirty(True), with or without a database file, the model is dirty
\* and read() returns the database as loaded from the file, not the snapshot.
C12_NoneTimestampIsDirty ==
    _mtime = NoMtime => (isDirty /\ read = readJson(dbText))

TextKeys == {m[1] : m \in dbText.members}

-----------------------------------------------------------------------------
(* Properties of cmds.saveJson, checked under SpecSave *)

\* C13: at every point during a save of d a reader of the database file
\* finds the complete previous content or the complete content d, never an
\* empty or partial file; and a save that fails leaves the previous content.
C13_SaveAtomic ==
    [][/\ (Step("readJson") /\ writer.pc # "idle") =>
            last'.text \in {writer.previous, json_dumps(writer.data)}
       /\ (writer.pc # "idle" /\ writer' = Idle /\ last'.outcome # "saved") =>
            dbText' = writer.previous]_vars

-----------------------------------------------------------------------------
(* Properties of cmds.renamePath, checked under SpecRename *)

\* the four conditions of the rename error, on the normalized source s and
\* the computed destination t
RenameErrorCase(f, d, s, t, force) ==
    \/ ~force /\ t = s
    \/ ~force /\ Exists(f, d, t)
    \/ ~Exists(f, d, Dirname(s))
    \/ ~Exists(f, d, s)

\* the destination's directory exists, or force creates it
DstDirOk(f, d, t, force) ==
    \/ Dirname(t) \in d
    \/ force /\ OsMkdirOk(f, d, Dirname(t))

\* os.rename accepts the destination t for the source s
ReplaceOk(f, d, plat, s, t) ==
    \/ ~Exists(f, d, t)
    \/ t = s
    \/ plat = "posix" /\ t \in f

\* What cmds.renamePath does, case by case: the rename error in the four
\* cases, except that under force a destination directory that cannot be
\* created fails in os.mkdir before the source is looked at; otherwise the
\* rename to the computed destination, provided the destination's directory
\* exists or was created and os.rename accepts the destination; otherwise the
\* error of os.mkdir or os.rename, with no file renamed.
RenamePathOutcomes ==
    [][Step("cmds.renamePath") =>
        LET src == last'.arg[1]
            force == last'.arg[4]
            plat == last'.arg[5]
            s == ReplaceBackslash(src)
            t == ComputedDst(src, last'.arg[2], last'.arg[3])
            case == RenameErrorCase(files, dirs, s, t, force)
            dirOk == DstDirOk(files, dirs, t, force)
            preempted == force /\ ~dirOk /\ Exists(files, dirs, Dirname(s))
        IN /\ last'.outcome = "PathRenameError" <=> (case /\ ~preempted)
           /\ ~case =>
                IF dirOk /\ ReplaceOk(files, dirs, plat, s, t)
                THEN /\ last'.outcome = "renamed"
                     /\ last'.ret = t
                     /\ files' = (files \ {s}) \cup {t}
                ELSE /\ last'.outcome = "OSError"
                     /\ files' = files
           /\ (t = s /\ s \in files) =>
                last'.outcome = IF force THEN "renamed" ELSE "PathRenameError"]_vars

\* C10: cmds.renamePath raises the rename error exactly in the four cases and
\* in every other case renames src to the computed destination and returns
\* it; renaming an existing file to its own path raises without force and
\* succeeds with force.
C10_RenamePath ==
    [][Step("cmds.renamePath") =>
        LET src == last'.arg[1]
            force == last'.arg[4]
            s == ReplaceBackslash(src)
            t == ComputedDst(src, last'.arg[2], last'.arg[3])
            case == RenameErrorCase(files, dirs, s, t, force)
        IN /\ last'.outcome = "PathRenameError" <=> case
           /\ ~case =>
                /\ last'.outcome = "renamed"
                /\ last'.ret = t
                /\ files' = (files \ {s}) \cup {t}
           /\ (t = s /\ s \in files) =>
                last'.outcome = IF force THEN "renamed" ELSE "PathRenameError"]_vars

-----------------------------------------------------------------------------
(* Properties of the tree widget *)

\* the items of the selection stand in the order as one block, and the
\* block stands immediately before the target (at the head when the target
\* is NoItem)
BlockBefore(order, selection, target) ==
    LET places == {i \in 1..Len(order) : order[i] \in Range(selection)}
        head == IF target = NoItem THEN 1
                ELSE ListIndex(order, target) + 1 - Len(selection)
    IN places = head..(head + Len(selection) - 1)

\* C16: after moveItems(selection, target), the order derived again from the
\* custom order texts has the selection as one block immediately before
\* target (at the head without a target), wherever the selected rows stood.
C16_MoveBlockBeforeTarget ==
    [][(Step("moveItems") /\ last'.arg[2] \notin Range(last'.arg[1])) =>
        BlockBefore(itemsCustomOrder(tree'), last'.arg[1], last'.arg[2])]_vars

\* C17: of two moved items, the one given first in the items argument comes
\* first in the custom order after moveItems.
C17_MoveKeepsRelativeOrder ==
    [][Step("moveItems") =>
        LET selection == last'.arg[1]
            order == itemsCustomOrder(tree')
        IN \A i, j \in 1..Len(selection) :
            i < j => ListIndex(order, selection[i]) < ListIndex(order, selection[j])]_vars

\* item a stands before item b in the rows of the widget
RowBefore(t, a, b) == ListIndex(widgetItems(t), a) < ListIndex(widgetItems(t), b)

\* the sort column and the group column sortByColumn works with
SortLabel(sortColumn) ==
    labelFromColumn(tree, IF sortColumn = NoColumn THEN 0 ELSE sortColumn)
Grouped(groupColumn) == Truthy(groupColumn)

\* items a and b have the same sort key
SameSortKey(t, sortColumn, a, b) ==
    lower(t.text[a][SortLabel(sortColumn)]) = lower(t.text[b][SortLabel(sortColumn)])

\* items a and b are not parted by the grouping
SameGroupKey(t, groupColumn, a, b) ==
    Grouped(groupColumn) =>
        lower(t.text[a][labelFromColumn(t, groupColumn)])
            = lower(t.text[b][labelFromColumn(t, groupColumn)])

\* C18 as stated: sortByColumn, ascending or descending, keeps the rows
\* whose sort texts are equal without regard to case in the order they had
\* before the sort.
C18_SortStable ==
    [][Step("sortByColumn") =>
        \A a, b \in TreeItems :
            (RowBefore(tree, a, b) /\ SameSortKey(tree, last'.arg[1], a, b))
                => RowBefore(tree', a, b)]_vars

\* C18: sortByColumn, ascending or descending, keeps the rows whose sort
\* texts are equal without regard to case in the order they had before the
\* sort, when no grouping is applied or the rows have the same group text.
C18_SortStableInGroup ==
    [][Step("sortByColumn") =>
        \A a, b \in TreeItems :
            (/\ RowBefore(tree, a, b)
             /\ SameSortKey(tree, last'.arg[1], a, b)
             /\ SameGroupKey(tree, last'.arg[3], a, b))
                => RowBefore(tree', a, b)]_vars

\* three rows that all have the custom order 00001, added against the order
\* of their numbers, were sorted by custom order and stand as before
C18_Witness ==
    /\ last.op = "sortByColumn"
    /\ last.arg[1] = columnFromLabel(tree, "Custom Order")
    /\ \A i \in TreeItems : tree.text[i]["Custom Order"] = zfill(str(1), DefaultPadding)
    /\ \A i \in TreeItems : tree.text[i]["Type"] = <<>>
    /\ widgetItems(tree) = [k \in TreeItems |-> MaxRows + 1 - k]

\* the places in the items of the widget at which a run of equal displayed
\* group texts begins
RunStarts(t, groupColumn) ==
    LET its == widgetItems(t)
    IN {k \in 1..Len(its) :
            k = 1 \/ displayText(t, its[k], groupColumn)
                        # displayText(t, its[k - 1], groupColumn)}

\* the rows of the widget that are group headers
HeaderRows(t) == {k \in DOMAIN t.rows : ~IsItemRow(t.rows[k])}

\* there is a header of the run's text immediately before the first item of
\* every run, and no other header
HeadersAtRuns(t, groupColumn) ==
    /\ Cardinality(HeaderRows(t)) = Cardinality(RunStarts(t, groupColumn))
    /\ \A k \in DOMAIN t.rows :
            IsItemRow(t.rows[k]) =>
                ((ListIndex(widgetItems(t), t.rows[k].item) + 1) \in RunStarts(t, groupColumn)
                    <=> /\ k > 1
                        /\ ~IsItemRow(t.rows[k - 1])
                        /\ t.rows[k - 1].group
                                = displayText(t, t.rows[k].item, groupColumn))

\* C19: when a group column is set, whatever its index and whatever texts
\* the rows display, the rows after groupByColumn have exactly one group
\* header immediately before each maximal run of rows with equal displayed
\* group text.
C19_GroupHeaders ==
    [][(Step("sortByColumn") /\ last'.arg[3] # NoColumn) =>
        HeadersAtRuns(tree', last'.arg[3])]_vars

\* int(s) for a text of digits
RECURSIVE int(_)
int(s) ==
    IF s = <<>> THEN 0
    ELSE int(SubSeq(s, 1, Len(s) - 1)) * 10 + (Ord(s[Len(s)]) - 1)

\* 10 ** width
RECURSIVE Pow10(_)
Pow10(width) == IF width = 0 THEN 1 ELSE 10 * Pow10(width - 1)

\* the items ordered by their custom order texts stand in the order of the
\* numbers the texts denote
StringOrderIsRankOrder(t) ==
    LET order == itemsCustomOrder(t)
    IN \A i, j \in 1..Len(order) :
            i < j => int(t.text[order[i]]["Custom Order"])
                        < int(t.text[order[j]]["Custom Order"])

\* C20 as stated: after setItemsCustomOrder with a padding width, the order
\* of the rows by the custom order text is the order by the numeric rank,
\* for every number of items up to and including 10 ** width.
C20_StringOrderIsRankOrder ==
    [][(Step("setItemsCustomOrder") /\ Len(last'.arg[1]) <= Pow10(last'.arg[2])) =>
        StringOrderIsRankOrder(tree')]_vars

\* C20: after setItemsCustomOrder with a padding width, the order of the
\* rows by the custom order text is the order by the numeric rank, which is
\* the order of the items given, for every number of items below 10 ** width.
C20_StringOrderIsRankOrderBelow ==
    [][(Step("setItemsCustomOrder") /\ Len(last'.arg[1]) < Pow10(last'.arg[2])) =>
        /\ StringOrderIsRankOrder(tree')
        /\ itemsCustomOrder(tree') = last'.arg[1]]_vars

\* nine items, the first row not the first item, were given their custom
\* order with the width 1 and stand in the order given
C20_Witness ==
    /\ last.op = "setItemsCustomOrder"
    /\ last.arg[2] = 1
    /\ Len(last.arg[1]) = 9
    /\ last.arg[1][1] # 1
    /\ itemsCustomOrder(tree) = last.arg[1]
    /\ tree.text[last.arg[1][9]]["Custom Order"] = <<"9">>

\* C24: after moveItems on n rows the custom orders of the rows are exactly
\* the zero-padded texts of 1..n, each on one row, and the rows that were
\* not moved stand in the custom order as they stood before the move.
C24_MoveRanks ==
    [][Step("moveItems") =>
        \A before \in {itemsCustomOrder(tree)}, after \in {itemsCustomOrder(tree')},
           moved \in {Range(last'.arg[1])} :
           /\ Len(after) = Len(before)
           /\ Range(after) = Range(before)
           /\ \A k \in 1..Len(after) :
                tree'.text[after[k]]["Custom Order"] = zfill(str(k), DefaultPadding)
           /\ \A a, b \in Range(before) \ moved :
                ListIndex(before, a) < ListIndex(before, b)
                    => ListIndex(after, a) < ListIndex(after, b)]_vars

\* one of three rows that all had the custom order 00001 was moved before
\* another one, and the rows now have the ranks 1, 2, 3 with the two rows
\* that stayed in their order
C24_Witness ==
    /\ last.op = "moveItems"
    /\ last.arg = <<<<3>>, 1>>
    /\ widgetItems(tree) = <<3, 1, 2>>
    /\ tree.text[3]["Custom Order"] = zfill(str(1), DefaultPadding)
    /\ tree.text[1]["Custom Order"] = zfill(str(2), DefaultPadding)
    /\ tree.text[2]["Custom Order"] = zfill(str(3), DefaultPadding)

\* C25: updateCustomOrder leaves the custom order of every row that has
\* one, gives every row without one the zero-padded rank of its place,
\* counted from 1, in the rows as displayed, and a second call directly
\* after the first changes nothing.
C25_UpdateCustomOrder ==
    [][Step("updateCustomOrder") =>
        \A shown \in {widgetItems(tree)} :
           /\ \A k \in 1..Len(shown) :
                tree'.text[shown[k]]["Custom Order"]
                    = IF tree.text[shown[k]]["Custom Order"] # <<>>
                      THEN tree.text[shown[k]]["Custom Order"]
                      ELSE zfill(str(k), DefaultPadding)
           /\ tree'.rows = tree.rows
           /\ last.op = "updateCustomOrder" => tree' = tree]_vars

\* of the rows shown against the order of their numbers, the first kept its
\* custom order 00002 and the last, which had none, got its place as its
\* rank; a second call has run
C25_Witness ==
    /\ last.op = "updateCustomOrder"
    /\ calls = 2
    /\ widgetItems(tree) = [k \in TreeItems |-> MaxRows + 1 - k]
    /\ tree.text[MaxRows]["Custom Order"] = zfill(str(2), DefaultPadding)
    /\ tree.text[1]["Custom Order"] = zfill(str(MaxRows), DefaultPadding)

\* texts x and y stand in the sort order: y does not come before x
InOrder(x, y, order) ==
    IF order = Ascending THEN ~StrLess(y, x) ELSE ~StrLess(x, y)

\* the rows with one group key, and so the rows between two group headers,
\* stand in the order of their sort texts without regard to case
SortedInGroups(t, sortColumn, order, groupColumn) ==
    \A shown \in {widgetItems(t)} :
       /\ \A i, j \in 1..Len(shown) :
            (i < j /\ SameGroupKey(t, groupColumn, shown[i], shown[j]))
                => InOrder(lower(t.text[shown[i]][SortLabel(sortColumn)]),
                           lower(t.text[shown[j]][SortLabel(sortColumn)]), order)
       /\ \A k \in 1..(Len(t.rows) - 1) :
            (IsItemRow(t.rows[k]) /\ IsItemRow(t.rows[k + 1]))
                => InOrder(lower(t.text[t.rows[k].item][SortLabel(sortColumn)]),
                           lower(t.text[t.rows[k + 1].item][SortLabel(sortColumn)]), order)

\* C26 as stated: with a group column set, after sortByColumn the rows
\* between two group headers stand in the order of their sort-column texts
\* without regard to case, in the sort order asked for; the group pass
\* keeps the sort order of the rows with equal group key.
C26_SortedInGroups ==
    [][(Step("sortByColumn") /\ last'.arg[3] # NoColumn) =>
        SortedInGroups(tree', last'.arg[1], last'.arg[2], last'.arg[3])]_vars

\* C26: with a group column set, after sortByColumn the rows between two
\* group headers stand in the order of their sort-column texts without
\* regard to case, in the sort order asked for, and ascending when the sort
\* column is the custom order; the group pass keeps the sort order of the
\* rows with equal group key.
C26_SortedInGroupsCustomAscending ==
    [][(Step("sortByColumn") /\ last'.arg[3] # NoColumn) =>
        SortedInGroups(tree', last'.arg[1],
                       IF SortLabel(last'.arg[1]) = "Custom Order"
                       THEN Ascending ELSE last'.arg[2],
                       last'.arg[3])]_vars

\* three rows of one type were sorted by name descending and grouped by
\* type: under the one header b stands first and the two names a and A
\* follow in the order they had
C26_Witness ==
    /\ last.op = "sortByColumn"
    /\ last.arg = <<0, Descending, 2, Ascending>>
    /\ tree.rows = <<GroupRow(<<"a">>), ItemRow(2), ItemRow(1), ItemRow(3)>>

-----------------------------------------------------------------------------
(* Properties of the settings *)

\* C21: for the settings s of a reachable widget, setSettings(s) returns and
\* settings() then equals s on sortOrder, sortColumn, groupOrder,
\* groupColumn and columnSettings, also when the sort or group column is
\* none, and the header has the columns it had.
C21_SettingsRoundTrip ==
    [][(Step("setSettings") /\ last'.arg = settings(tree)) =>
        /\ last'.outcome = "returned"
        /\ settings(tree') = settings(tree)
        /\ tree'.header = tree.header]_vars

\* the key of the mapping is missing or, for a column, names no column
KeyMissing(t, settings_, key) ==
    \/ key \notin DOMAIN settings_
    \/ /\ key \in {"sortColumn", "groupColumn"}
       /\ settings_[key] \notin Range(t.header)

\* C22: setSettings with a mapping in which a key of sortOrder, sortColumn,
\* groupOrder, groupColumn is missing, or a column key names no column,
\* returns with the default in its place: the order ascending, the column
\* none; with the group column none there is no group header.
C22_DefaultsApplied ==
    [][(Step("setSettings") /\ \E key \in SortKeys : KeyMissing(tree, last'.arg, key)) =>
        /\ last'.outcome = "returned"
        /\ KeyMissing(tree, last'.arg, "sortOrder") => tree'._sortOrder = Ascending
        /\ KeyMissing(tree, last'.arg, "groupOrder") => tree'._groupOrder = Ascending
        /\ KeyMissing(tree, last'.arg, "sortColumn") => tree'._sortColumn = NoColumn
        /\ KeyMissing(tree, last'.arg, "groupColumn") =>
                /\ tree'._groupColumn = NoColumn
                /\ HeaderRows(tree') = {}]_vars

-----------------------------------------------------------------------------
(* Properties of cmds.generateUniquePath *)

\* the candidate "name (k)" of a path
Candidate(path, k) ==
    formatPath(splitPath(path)[1], splitPath(path)[2], k, splitPath(path)[3])

\* C23: generateUniquePath(path, attempts) ends after at most attempts
\* existence checks; it returns the path itself when it is free, else the
\* first free candidate "name (k)", k from 2 on; it raises the error exactly
\* when the path and every candidate 2..attempts exist; the path returned
\* does not exist.
C23_GenerateUniquePath ==
    [][Step("generateUniquePath") =>
        LET path == last'.arg[1]
            attempts == last'.arg[2]
            taken(p) == Exists(files, dirs, p)
        IN /\ last'.checks <= attempts
           /\ ~taken(path) => (last'.outcome = "returned" /\ last'.ret = path)
           /\ last'.outcome = "returned" =>
                /\ ~taken(last'.ret)
                /\ \/ last'.ret = path
                   \/ \E k \in 2..attempts :
                        /\ last'.ret = Candidate(path, k)
                        /\ taken(path)
                        /\ \A j \in 2..(k - 1) : taken(Candidate(path, j))
           /\ last'.outcome = "ValueError" <=>
                (taken(path) /\ \A k \in 2..attempts : taken(Candidate(path, k)))]_vars

-----------------------------------------------------------------------------
(* The model beside the watcher's polls and another process's writes *)

\* LibraryModel.loadItemData: read() fetches the database, and the texts it
\* holds are set on the items given
LoadItemData ==
    /\ calls < MaxCalls
    /\  \E data \in {read} :
            /\ _data' = data
            /\ _mtime' = mtime
            /\ Call("loadItemData", <<>>, [ret |-> data, after |-> After])
            /\ UNCHANGED <<tree, writer, dirs, files, dbText, dbMtime, clock, _watcher, pending, _items, owed, discovered>>

\* LibraryModel.__init__ in a library that holds some of the items and either
\* no database file or one that has a record for each of the items
InitWatch ==
    /\ dirs = {RootDir, LibDir, DirA}
    /\ files \in SUBSET ItemInputs
    /\ \E present \in BOOLEAN :
        /\ dbText = IF present THEN json_dumps(syncData(EmptyDict, files, dirs)) ELSE NoFile
        /\ dbMtime = IF present THEN 1 ELSE NoMtime
        /\ clock = IF present THEN 1 ELSE 0
    /\ _data = EmptyDict
    /\ _mtime = NoMtime
    /\ _watcher = FALSE
    /\ _items = {}
    /\ discovered = NoDiscovery
    /\ owed = FALSE
    /\ pending = FALSE
    /\ writer = Idle
    /\ tree = NoTree
    /\ calls = 0
    /\ last = [op |-> "__init__", arg |-> <<>>]

NextWatch ==
    \/ Read
    \/ Sync
    \/ CreateItems
    \/ LoadItemData
    \/ StartWatcher
    \/ Triggered
    \/ FileChanged
    \/ ExternalWrite
    \/ FsCreate

SpecItems == InitWatch /\ [][NextWatch]_vars

\* the watcher's thread keeps reaching its repeat rate, and the event loop of
\* the model's thread keeps delivering the queued events
SpecWatch == InitWatch /\ [][NextWatch]_vars /\ WF_vars(Triggered) /\ WF_vars(FileChanged)

\* C27: while the watcher runs, a modification of the database file by another
\* process is eventually followed by a fileChanged emission, whatever read,
\* sync, createItems and loadItemData calls come before the next poll; and
\* after an emission the model is clean, so the same modification is not
\* reported twice
C27_FileChangedFollows ==
    /\ (owed /\ _watcher) ~> ~owed
    /\ [][(pending /\ ~pending' /\ isDirty) => ~isDirty']_vars

\* C28: createItems returns the items found in the library whenever it has not
\* looked for them since __init__, or the database file changed since it last
\* looked
C28_CreateItemsNotStale ==
    [][(Step("createItems") /\ discovered # DbVersion) =>
        last'.items = findItems(files)]_vars

\* C29: saveItemData changes nothing outside the cells it is asked to save: the
\* record of every path that is not the path of a given item is as it was, and
\* in the record of a given item every column that is not among the columns
\* keeps the value the database held
C29_SaveItemDataFrame ==
    [][Step("saveItemData") =>
        \A data \in {itemData(last'.arg[1], last'.arg[2])}, after \in {readJson(dbText')} :
            /\ \A p \in DOMAIN Persisted \ DOMAIN data :
                /\ p \in DOMAIN after
                /\ after[p] = Persisted[p]
            /\ \A p \in DOMAIN Persisted \cap DOMAIN data :
               \A c \in DOMAIN Persisted[p] \ DOMAIN data[p] :
                /\ c \in DOMAIN after[p]
                /\ after[p][c] = Persisted[p][c]]_vars

\* C30: when cmds.renamePath raises the rename error the filesystem is as it
\* was: no file renamed, no directory created
C30_RenameErrorLeavesFilesystem ==
    [][(Step("cmds.renamePath") /\ last'.outcome = "PathRenameError") =>
        /\ files' = files
        /\ dirs' = dirs]_vars

====
